---- MODULE Spec2Model ----
(***************************************************************************)
(* Model of cpu_dashboard.py: the VM descriptor parser (extract_vm_info),  *)
(* the CSV loader (load_data) and the 2-hour trend aggregation (df_trend). *)
(* Text is modelled as a sequence of one-character strings, so that the    *)
(* substring tests, splits and regular expressions of the source are       *)
(* computed character by character.                                        *)
(***************************************************************************)
EXTENDS Integers, Sequences, FiniteSets, TLC

VARIABLES
    pc,             \* the position of the run
    vm_str,         \* extract_vm_info: its argument
    vm_name,        \* extract_vm_info: the first component of its result
    vm_type,        \* extract_vm_info: the second component of its result
    uploaded_file,  \* load_data: the active file
    header_row,     \* load_data: the header line found (0-based)
    df,             \* load_data: its result
    st_errors,      \* the st.error messages shown so far
    load_ret,       \* load_data: the line of the return statement taken
    selection,      \* the values of the sidebar widgets
    df_filtered,    \* the rows of df the filters keep
    df_trend,       \* the trend table
    color_map,      \* the result of generate_color_map
    color_map_single, \* the result of generate_color_map_single_ne
    ne_name,        \* the NE Name generate_color_map_single_ne is called with
    session_state,  \* st.session_state
    unique_nes,     \* the NE Names of the trend table, sorted
    page_nes        \* the NE Names charted on the current page

chartVars == <<color_map, color_map_single, ne_name, session_state, unique_nes, page_nes>>

vars ==
    <<pc, vm_str, vm_name, vm_type, uploaded_file, header_row, df, st_errors, load_ret,
      selection, df_filtered, df_trend, chartVars>>

(***************************************************************************)
(* Python values: None / NaN against a str.                                *)
(***************************************************************************)
None == [nil |-> TRUE, str |-> <<>>]

Str(s) == [nil |-> FALSE, str |-> s]

\* pd.isna(v)
IsNa(v) == v.nil

(***************************************************************************)
(* str primitives used by extract_vm_info.                                 *)
(***************************************************************************)
\* the characters str.strip() removes
Whitespace == {" ", "\t"}

LowerAZ == <<"a", "b", "c", "d", "e", "f", "g", "h", "i", "j", "k", "l", "m", "n", "o", "p", "q", "r", "s", "t", "u", "v", "w", "x", "y", "z">>

UpperAZ == <<"A", "B", "C", "D", "E", "F", "G", "H", "I", "J", "K", "L", "M", "N", "O", "P", "Q", "R", "S", "T", "U", "V", "W", "X", "Y", "Z">>

LowerSet == {LowerAZ[k] : k \in 1..Len(LowerAZ)}

UpperSet == {UpperAZ[k] : k \in 1..Len(UpperAZ)}

\* c.upper() for the lower-case letters
UpperMap == [c \in LowerSet |-> UpperAZ[CHOOSE k \in 1..Len(LowerAZ) : LowerAZ[k] = c]]

\* p occurs in s starting at position i
StartsAt(s, i, p) ==
    /\ i >= 1
    /\ i + Len(p) - 1 <= Len(s)
    /\ \A k \in 1..Len(p) : s[i + k - 1] = p[k]

\* str.find: the leftmost position of p in s at or after position from, 0 when absent
RECURSIVE FindFrom(_, _, _)
FindFrom(s, p, from) ==
    IF from + Len(p) - 1 > Len(s) THEN 0
    ELSE IF StartsAt(s, from, p) THEN from
    ELSE FindFrom(s, p, from + 1)

Find(s, p) == FindFrom(s, p, 1)

\* p in s
Contains(s, p) == Find(s, p) # 0

\* the first position at or after i that holds no whitespace, Len(s) + 1 when none
RECURSIVE SkipLeft(_, _)
SkipLeft(s, i) ==
    IF i > Len(s) THEN i
    ELSE IF s[i] \in Whitespace THEN SkipLeft(s, i + 1)
    ELSE i

\* the last position at or before i that holds no whitespace, 0 when none
RECURSIVE SkipRight(_, _)
SkipRight(s, i) ==
    IF i < 1 THEN i
    ELSE IF s[i] \in Whitespace THEN SkipRight(s, i - 1)
    ELSE i

\* s.strip()
Strip(s) == SubSeq(s, SkipLeft(s, 1), SkipRight(s, Len(s)))

\* one character of s.upper()
UpperChar(c) == IF c \in LowerSet THEN UpperMap[c] ELSE c

\* s.upper()
Upper(s) == [i \in 1..Len(s) |-> UpperChar(s[i])]

\* s.split(sep), sep not empty
RECURSIVE Split(_, _)
Split(s, sep) ==
    LET i == Find(s, sep)
    IN  IF i = 0 THEN <<s>>
        ELSE <<SubSeq(s, 1, i - 1)>> \o Split(SubSeq(s, i + Len(sep), Len(s)), sep)

\* sep.join(parts)
RECURSIVE Join(_, _)
Join(parts, sep) ==
    IF Len(parts) = 0 THEN <<>>
    ELSE IF Len(parts) = 1 THEN parts[1]
    ELSE parts[1] \o sep \o Join(Tail(parts), sep)

(***************************************************************************)
(* extract_vm_info                                                          *)
(***************************************************************************)
TRIGGER_NEW == <<"V", "i", "r", "t", "u", "a", "l", " ", "m", "a", "c", "h", "i", "n", "e", " ", "n", "a", "m", "e", "=">>

VM_NAME_KEY == <<"V", "M", " ", "N", "a", "m", "e", "=">>

UNKNOWN == <<"U", "N", "K", "N", "O", "W", "N">>

UNDERSCORE == <<"_">>

T_IPU_A == <<"I", "P", "U", "_", "A">>

T_IPU_B_ARM == <<"I", "P", "U", "_", "B", "_", "A", "R", "M">>

T_IPU_B == <<"I", "P", "U", "_", "B">>

T_ISU_ARM == <<"I", "S", "U", "_", "A", "R", "M">>

T_ISU_C48 == <<"I", "S", "U", "_", "C", "4", "8">>

T_SDU_A_ARM == <<"S", "D", "U", "_", "A", "_", "A", "R", "M">>

T_SDU_A == <<"S", "D", "U", "_", "A">>

T_SPU_CGW == <<"S", "P", "U", "_", "C", "G", "W">>

T_SPU_B == <<"S", "P", "U", "_", "B">>

T_SPU_C == <<"S", "P", "U", "_", "C">>

T_SPU_K1 == <<"S", "P", "U", "_", "K", "1">>

T_SPU_O == <<"S", "P", "U", "_", "O">>

T_SPU_P == <<"S", "P", "U", "_", "P">>

T_SPU_J_ARM == <<"S", "P", "U", "_", "J", "_", "A", "R", "M">>

T_SPU_J == <<"S", "P", "U", "_", "J">>

T_SPU_M_ARM == <<"S", "P", "U", "_", "M", "_", "A", "R", "M">>

T_SPU_M == <<"S", "P", "U", "_", "M">>

T_SPU_G == <<"S", "P", "U", "_", "G">>

T_OMU == <<"O", "M", "U">>

\* the chain with the IPU_B test moved before the IPU_B_ARM test
VM_TYPE_RULES_BareFirst ==
    << T_IPU_A, T_IPU_B, T_IPU_B_ARM, T_ISU_ARM, T_ISU_C48, T_SDU_A_ARM, T_SDU_A,
       T_SPU_CGW, T_SPU_B, T_SPU_C, T_SPU_K1, T_SPU_O, T_SPU_P, T_SPU_J_ARM,
       T_SPU_J, T_SPU_M_ARM, T_SPU_M, T_SPU_G, T_OMU >>

\* the if / elif chain of the old format, in source order
VM_TYPE_RULES ==
    << T_IPU_A,
       T_IPU_B_ARM,
       T_IPU_B,
       T_ISU_ARM,
       T_ISU_C48,
       T_SDU_A_ARM,
       T_SDU_A,
       T_SPU_CGW,
       T_SPU_B,
       T_SPU_C,
       T_SPU_K1,
       T_SPU_O,
       T_SPU_P,
       T_SPU_J_ARM,
       T_SPU_J,
       T_SPU_M_ARM,
       T_SPU_M,
       T_SPU_G,
       T_OMU >>

\* the character class [^,"] of the VM Name pattern
NotCommaQuote(c) == c \notin {",", "\""}

\* the character class [A-Z]
IsUpperAZ(c) == c \in UpperSet

\* the last position of the run of [^,"] characters that starts at i
RECURSIVE NameRunEnd(_, _)
NameRunEnd(s, i) ==
    IF i > Len(s) THEN Len(s)
    ELSE IF NotCommaQuote(s[i]) THEN NameRunEnd(s, i + 1)
    ELSE i - 1

\* the last position of the run of [A-Z] characters that starts at i
RECURSIVE UpperRunEnd(_, _)
UpperRunEnd(s, i) ==
    IF i > Len(s) THEN Len(s)
    ELSE IF IsUpperAZ(s[i]) THEN UpperRunEnd(s, i + 1)
    ELSE i - 1

\* line 43: vm_str.split("Virtual machine name=")[1].strip()
FullVmName(s) == Strip(Split(s, TRIGGER_NEW)[2])

\* the new format with the first two tokens dropped instead of the first one
NewFormatInfo_DropTwo(full_vm_name) ==
    LET parts == Split(full_vm_name, UNDERSCORE)
    IN  IF Len(parts) > 2
        THEN LET name == Join(Tail(Tail(parts)), UNDERSCORE)
             IN  IF Len(parts) > 3
                 THEN <<Str(name), Str(Join(SubSeq(parts, 3, Len(parts) - 1), UNDERSCORE))>>
                 ELSE <<Str(name), Str(name)>>
        ELSE <<Str(full_vm_name), Str(UNKNOWN)>>

\* the new format with the type of a two-token name left UNKNOWN
NewFormatInfo_TypeUnknown(full_vm_name) ==
    LET parts == Split(full_vm_name, UNDERSCORE)
    IN  IF Len(parts) > 2
        THEN <<Str(Join(Tail(parts), UNDERSCORE)),
               Str(Join(SubSeq(parts, 2, Len(parts) - 1), UNDERSCORE))>>
        ELSE IF Len(parts) > 1
        THEN <<Str(Join(Tail(parts), UNDERSCORE)), Str(UNKNOWN)>>
        ELSE <<Str(full_vm_name), Str(UNKNOWN)>>

\* lines 45-70: the name and type of the new format, from full_vm_name
NewFormatInfo(full_vm_name) ==
    LET parts == Split(full_vm_name, UNDERSCORE)
    IN  IF Len(parts) > 1
        THEN LET name == Join(Tail(parts), UNDERSCORE)
             IN  IF Len(parts) > 2
                 THEN <<Str(name), Str(Join(SubSeq(parts, 2, Len(parts) - 1), UNDERSCORE))>>
                 ELSE <<Str(name), Str(name)>>
        ELSE <<Str(full_vm_name), Str(UNKNOWN)>>

\* line 78: re.search(r"VM Name=([^,\"]+)", vm_str), its group(1) or None
RECURSIVE MatchNameFrom(_, _)
MatchNameFrom(s, i) ==
    LET n == Len(VM_NAME_KEY)
    IN  IF i + n > Len(s) THEN None
        ELSE IF StartsAt(s, i, VM_NAME_KEY) /\ NotCommaQuote(s[i + n])
        THEN Str(SubSeq(s, i + n, NameRunEnd(s, i + n)))
        ELSE MatchNameFrom(s, i + 1)

MatchName(s) == MatchNameFrom(s, 1)

\* line 128: re.search(r"^([A-Z]+)", vm_name), its group(1) or None
MatchType(name) ==
    IF Len(name) >= 1 /\ IsUpperAZ(name[1])
    THEN Str(SubSeq(name, 1, UpperRunEnd(name, 1)))
    ELSE None

\* lines 88-125: the first rule, from position k on, whose token is in vm_name_upper;
\* 0 when the chain falls through to the else branch
RECURSIVE FirstRule(_, _)
FirstRule(vm_name_upper, k) ==
    IF k > Len(VM_TYPE_RULES) THEN 0
    ELSE IF Contains(vm_name_upper, VM_TYPE_RULES[k]) THEN k
    ELSE FirstRule(vm_name_upper, k + 1)

\* lines 85-132: the type of the old format, from vm_name
ClassifyType(name) ==
    LET k == FirstRule(Upper(name), 1)
    IN  IF k # 0 THEN VM_TYPE_RULES[k]
        ELSE LET match_type == MatchType(name)
             IN  IF match_type.nil THEN UNKNOWN ELSE match_type.str

\* lines 78-82: vm_name of the old format
OldFormatName(s) ==
    LET match_name == MatchName(s)
    IN  IF match_name.nil THEN s ELSE Strip(match_name.str)

\* lines 78-134: the old format
OldFormatInfo(s) ==
    LET name == OldFormatName(s)
    IN  <<Str(name), Str(ClassifyType(name))>>

\* lines 25-134: extract_vm_info(vm_str) = (vm_name, vm_type).  The except branch
\* of the new format (line 72) is not reachable: the trigger is in vm_str, so
\* split(...)[1] exists, and strip, split and join of str values do not raise.
extract_vm_info(v) ==
    IF IsNa(v) THEN <<None, None>>
    ELSE LET s == Strip(v.str)
         IN  IF Contains(s, TRIGGER_NEW)
             THEN NewFormatInfo(FullVmName(s))
             ELSE OldFormatInfo(s)

(***************************************************************************)
(* The VM descriptors the parser is run on: a lead, a name made of a stem  *)
(* and up to MaxSuffix suffix fragments, and a tail.                       *)
(***************************************************************************)
MaxSuffix == 2

S_EMPTY == <<>>

S_LOWER == <<"i", "p", "u", "_", "a">>

S_XYZ_9 == <<"X", "Y", "Z", "_", "9">>

S_X == <<"x", "9">>

S_SPU_CGW_0080 == <<"S", "P", "U", "_", "C", "G", "W", "_", "0", "0", "8", "0">>

S_SITE_ONLY == <<"S", "I", "T", "E", "_", "O", "N", "L", "Y">>

S_ARQ == <<"A", "R", "Q", "_", "S", "B", "C", "O", "M", "U", "0", "2", "_", "O", "M", "U", "S", "B", "I", "G", "2", "_", "1">>

S_OMU_IPU_B == <<"O", "M", "U", "_", "I", "P", "U", "_", "B">>

S_SPU_M_SPU_J == <<"S", "P", "U", "_", "M", "_", "S", "P", "U", "_", "J">>

F_UNDERSCORE == <<"_">>

F_INDEX == <<"_", "3">>

L_EMPTY == <<>>

L_SPACE == <<" ">>

L_OLD == <<"V", "M", " ", "N", "a", "m", "e", "=">>

L_OLD_NODE == <<"n", "o", "d", "e", "N", "a", "m", "e", "=", "V", "N", "F", "P", ",", " ", "V", "M", " ", "N", "a", "m", "e", "=">>

L_OLD_PAD == <<"V", "M", " ", "N", "a", "m", "e", "=", " ">>

L_NEW == <<"V", "i", "r", "t", "u", "a", "l", " ", "m", "a", "c", "h", "i", "n", "e", " ", "n", "a", "m", "e", "=">>

L_NEW_PAD == <<" ", "V", "i", "r", "t", "u", "a", "l", " ", "m", "a", "c", "h", "i", "n", "e", " ", "n", "a", "m", "e", "=", " ">>

L_OLD_EMPTY_FIRST == <<"V", "M", " ", "N", "a", "m", "e", "=", ",", "V", "M", " ", "N", "a", "m", "e", "=">>

E_SPACE == <<" ">>

E_COMMA == <<",", " ", "s", "l", "o", "t", "=", "1">>

E_QUOTE == <<"\"">>

E_NEW_AGAIN == <<" ", "V", "i", "r", "t", "u", "a", "l", " ", "m", "a", "c", "h", "i", "n", "e", " ", "n", "a", "m", "e", "=", "c", "_", "d", "_", "e">>

E_OLD_AGAIN == <<",", "V", "M", " ", "N", "a", "m", "e", "=", "S", "P", "U", "_", "B", "_", "1">>

Leads == {L_EMPTY, L_SPACE, L_OLD, L_OLD_NODE, L_OLD_PAD, L_NEW, L_NEW_PAD, L_OLD_EMPTY_FIRST}

Tails == {E_SPACE, E_COMMA, E_QUOTE, E_NEW_AGAIN, E_OLD_AGAIN}

Fragments == {F_UNDERSCORE, F_INDEX}

Stems ==
    {VM_TYPE_RULES[k] : k \in 1..Len(VM_TYPE_RULES)}
        \cup {S_EMPTY, S_LOWER, S_XYZ_9, S_X, S_SPU_CGW_0080, S_SITE_ONLY, S_ARQ, S_OMU_IPU_B, S_SPU_M_SPU_J}

RECURSIVE Suffixes(_)
Suffixes(n) ==
    IF n = 0 THEN {<<>>}
    ELSE LET shorter == Suffixes(n - 1)
         IN  shorter \cup {b \o f : b \in shorter, f \in Fragments}

Names == {st \o su : st \in Stems, su \in Suffixes(MaxSuffix)}

\* every lead before every name, and the tails after the two plain leads
Descriptors ==
    {l \o n : l \in Leads, n \in Names}
        \cup {l \o n \o e : l \in {L_OLD_NODE, L_NEW}, n \in Names, e \in Tails}

(***************************************************************************)
(* load_data                                                                *)
(***************************************************************************)
START_TIME == <<"S", "t", "a", "r", "t", " ", "T", "i", "m", "e">>

NE_NAME == <<"N", "E", " ", "N", "a", "m", "e">>

VM == <<"V", "M">>

MAXIMUM_CPU_LOAD == <<"M", "a", "x", "i", "m", "u", "m", " ", "C", "P", "U", " ", "L", "o", "a", "d", " ", "(", "%", ")">>

MEAN_CPU_LOAD == <<"M", "e", "a", "n", " ", "C", "P", "U", " ", "L", "o", "a", "d", " ", "(", "%", ")">>

CPU_MAX_USAGE == <<"C", "P", "U", " ", "m", "a", "x", " ", "u", "s", "a", "g", "e", " ", "(", "%", ")">>

CPU_AVERAGE_USAGE == <<"C", "P", "U", " ", "a", "v", "e", "r", "a", "g", "e", " ", "u", "s", "a", "g", "e", " ", "(", "%", ")">>

\* line 235: the number of leading lines scanned for the header
HEADER_SCAN_LINES == 50

\* line 248: required_cols_base
required_cols_base == <<START_TIME, NE_NAME, VM>>

\* NaT / NaN of a parsed cell; parsed instants and numbers are naturals
NaT == -1

NaN == -1

\* line 236: "Start Time" in line and "NE Name" in line, on the cells of the line
\* (neither token holds a comma, so it lies within one cell)
LineIsHeader(line) ==
    /\ \E c \in 1..Len(line) : Contains(line[c], START_TIME)
    /\ \E c \in 1..Len(line) : Contains(line[c], NE_NAME)

\* the text lines of the file that can hold the header: the lines before the
\* header line, then the header line (data lines hold neither token)
HeadLines(f) == f.pre \o <<f.header>>

\* lines 234-238: header_row (0-based), scanning lines[:50] from position i (1-based)
RECURSIVE ScanHeader(_, _)
ScanHeader(lines, i) ==
    IF i > Len(lines) \/ i > HEADER_SCAN_LINES THEN 0
    ELSE IF LineIsHeader(lines[i]) THEN i - 1
    ELSE ScanHeader(lines, i + 1)

HeaderRow(f) == ScanHeader(HeadLines(f), 1)

\* a line above the data read as a data row: none of its cells parses
JunkRow == [StartTime |-> NaT, NE |-> <<>>, VM |-> None, Mean |-> NaN, Avg |-> NaN]

\* line 241: pd.read_csv(uploaded_file, skiprows=header_row): the column names are
\* the cells of line header_row, the rows are the lines below it
ReadCsv(f, skiprows) ==
    LET lines == HeadLines(f)
    IN  [columns |-> lines[skiprows + 1],
         rows |-> [i \in 1..(Len(lines) - skiprows - 1) |-> JunkRow] \o f.rows]

\* line 244: [c.strip() for c in df.columns], as the set the membership tests read
StripColumns(columns) == {Strip(columns[c]) : c \in 1..Len(columns)}

\* line 249: all(col in df.columns for col in required_cols_base)
HasRequired(columns) ==
    \A k \in 1..Len(required_cols_base) : required_cols_base[k] \in columns

\* lines 254-259: Date, VM_Name and VM_Type of one row; idx is the row's index label
WithVmInfo(row, idx) ==
    LET vm_info == extract_vm_info(row.VM)
    IN  [idx |-> idx, Date |-> row.StartTime, NE |-> row.NE,
         VM_Name |-> vm_info[1], VM_Type |-> vm_info[2],
         Mean |-> row.Mean, Avg |-> row.Avg]

\* lines 264 / 267: CPU_Usage from the column named source
WithCpuUsage(rec, source) ==
    [idx |-> rec.idx, Date |-> rec.Date, NE |-> rec.NE,
     VM_Name |-> rec.VM_Name, VM_Type |-> rec.VM_Type,
     CPU_Usage |-> IF source = MEAN_CPU_LOAD THEN rec.Mean ELSE rec.Avg]

\* dropna without "Date" in its subset
IsValidRow_NoDate(rec) == rec.CPU_Usage # NaN /\ ~rec.VM_Name.nil

\* line 274: a row dropna(subset=["Date", "CPU_Usage", "VM_Name"]) keeps
IsValidRow(rec) == rec.Date # NaT /\ rec.CPU_Usage # NaN /\ ~rec.VM_Name.nil

\* line 274: df.dropna(...), order and index labels kept
RECURSIVE DropNa(_)
DropNa(recs) ==
    IF recs = <<>> THEN <<>>
    ELSE IF IsValidRow(Head(recs)) THEN <<Head(recs)>> \o DropNa(Tail(recs))
    ELSE DropNa(Tail(recs))

NoDf == [none |-> TRUE, rows |-> <<>>]

Df(rows) == [none |-> FALSE, rows |-> rows]

\* the three ways load_data returns None, and the DataFrame return
Returns(line, d, errors) == [ret |-> line, df |-> d, errors |-> errors]

\* the resolution with the old schema tested first
ResolveCpu_OldFirst(columns, rows) ==
    LET recs == [i \in 1..Len(rows) |-> WithVmInfo(rows[i], i - 1)]
        usage(source) == [i \in 1..Len(recs) |-> WithCpuUsage(recs[i], source)]
    IN  IF CPU_MAX_USAGE \in columns
        THEN IF CPU_AVERAGE_USAGE \in columns
             THEN Returns("276", Df(DropNa(usage(CPU_AVERAGE_USAGE))), <<>>)
             ELSE Returns("280", NoDf, <<"Error procesando el archivo">>)
        ELSE IF MAXIMUM_CPU_LOAD \in columns
        THEN IF MEAN_CPU_LOAD \in columns
             THEN Returns("276", Df(DropNa(usage(MEAN_CPU_LOAD))), <<>>)
             ELSE Returns("280", NoDf, <<"Error procesando el archivo">>)
        ELSE Returns("271", NoDf, <<"No se encontro columna de CPU">>)

\* lines 261-276, once the required columns are there
ResolveCpu(columns, rows) ==
    LET recs == [i \in 1..Len(rows) |-> WithVmInfo(rows[i], i - 1)]
        usage(source) == [i \in 1..Len(recs) |-> WithCpuUsage(recs[i], source)]
    IN  IF MAXIMUM_CPU_LOAD \in columns
        THEN IF MEAN_CPU_LOAD \in columns
             THEN Returns("276", Df(DropNa(usage(MEAN_CPU_LOAD))), <<>>)
             ELSE Returns("280", NoDf, <<"Error procesando el archivo">>)
        ELSE IF CPU_MAX_USAGE \in columns
        THEN IF CPU_AVERAGE_USAGE \in columns
             THEN Returns("276", Df(DropNa(usage(CPU_AVERAGE_USAGE))), <<>>)
             ELSE Returns("280", NoDf, <<"Error procesando el archivo">>)
        ELSE Returns("271", NoDf, <<"No se encontro columna de CPU">>)

\* lines 229-280: load_data(uploaded_file).  f.unreadable says that pd.read_csv
\* raises on the content (ParserError, EmptyDataError), which the except catches.
load_data(f) ==
    IF f.unreadable
    THEN Returns("280", NoDf, <<"Error procesando el archivo">>)
    ELSE LET csv == ReadCsv(f, HeaderRow(f))
             columns == StripColumns(csv.columns)
         IN  IF ~HasRequired(columns)
             THEN Returns("250", NoDf, <<>>)
             ELSE ResolveCpu(columns, csv.rows)

K_START_TIME_PAD == <<" ", "S", "t", "a", "r", "t", " ", "T", "i", "m", "e">>

K_NE_NAME_PAD == <<"N", "E", " ", "N", "a", "m", "e", " ">>

K_VM_PAD == <<" ", "V", "M", " ">>

K_START_TIME_UTC == <<"S", "t", "a", "r", "t", " ", "T", "i", "m", "e", " ", "(", "U", "T", "C", ")">>

K_TIME == <<"T", "i", "m", "e">>

K_HOST == <<"H", "o", "s", "t">>

K_BANNER == <<"P", "e", "r", "f", "o", "r", "m", "a", "n", "c", "e", " ", "e", "x", "p", "o", "r", "t">>

K_BANNER_START == <<"R", "e", "p", "o", "r", "t", " ", "S", "t", "a", "r", "t", " ", "T", "i", "m", "e", ":", " ", "t", "o", "d", "a", "y">>

K_BANNER_BOTH == <<"S", "t", "a", "r", "t", " ", "T", "i", "m", "e", " ", "/", " ", "N", "E", " ", "N", "a", "m", "e", " ", "r", "e", "p", "o", "r", "t">>

(***************************************************************************)
(* The dashboard: the filters (lines 302-333) and the trend (349-359).     *)
(***************************************************************************)
\* the characters of names in code point order, as str comparison reads them
CodePoints ==
    <<" ">> \o <<"0", "1", "2", "3", "4", "5", "6", "7", "8", "9">> \o <<"=">>
        \o UpperAZ \o <<"_">> \o LowerAZ

Ord == [c \in {CodePoints[k] : k \in 1..Len(CodePoints)} |->
            CHOOSE k \in 1..Len(CodePoints) : CodePoints[k] = c]

\* a < b for str
RECURSIVE StrLess(_, _)
StrLess(a, b) ==
    IF b = <<>> THEN FALSE
    ELSE IF a = <<>> THEN TRUE
    ELSE IF a[1] = b[1] THEN StrLess(Tail(a), Tail(b))
    ELSE Ord[a[1]] < Ord[b[1]]

\* line 325: the hours of a day, for .dt.date
HOURS_PER_DAY == 24

\* line 350: the width in hours of floor("2H")
BUCKET_HOURS == 2

\* lines 325-326: Date.dt.date
DateOf(t) == t \div HOURS_PER_DAY

\* a floor to the hour: the timestamps are whole hours
DateHour_Hourly(t) == t

\* line 350: Date.dt.floor("2H")
DateHour(t) == t - (t % BUCKET_HOURS)

\* lines 324-330: the mask of the four filters
InMask(rec, start_date, end_date, selected_nes, selected_types) ==
    /\ DateOf(rec.Date) >= start_date
    /\ DateOf(rec.Date) <= end_date
    /\ rec.NE \in selected_nes
    /\ rec.VM_Type.str \in selected_types

\* line 330: df.loc[mask]
RECURSIVE Loc(_, _, _, _, _)
Loc(rows, start_date, end_date, selected_nes, selected_types) ==
    IF rows = <<>> THEN <<>>
    ELSE LET rest == Loc(Tail(rows), start_date, end_date, selected_nes, selected_types)
         IN  IF InMask(Head(rows), start_date, end_date, selected_nes, selected_types)
             THEN <<Head(rows)>> \o rest
             ELSE rest

\* line 353: the group key of a record
GroupKey(rec) == <<DateHour(rec.Date), rec.NE, rec.VM_Name.str, rec.VM_Type.str>>

\* the order of group keys: the order groupby(sort=True) lists the groups in
KeyLess(j, k) ==
    \/ j[1] < k[1]
    \/ j[1] = k[1] /\ StrLess(j[2], k[2])
    \/ j[1] = k[1] /\ j[2] = k[2] /\ StrLess(j[3], k[3])
    \/ j[1] = k[1] /\ j[2] = k[2] /\ j[3] = k[3] /\ StrLess(j[4], k[4])

\* the keys of a set in ascending order
RECURSIVE SortedKeys(_)
SortedKeys(keys) ==
    IF keys = {} THEN <<>>
    ELSE LET least == CHOOSE k \in keys : \A j \in keys : j = k \/ KeyLess(k, j)
         IN  <<least>> \o SortedKeys(keys \ {least})

RECURSIVE GCD(_, _)
GCD(a, b) == IF b = 0 THEN a ELSE GCD(b, a % b)

\* the fraction total / count in lowest terms
Ratio(total, count) ==
    LET g == GCD(total, count)
    IN  [num |-> total \div g, den |-> count \div g]

\* the sum of CPU_Usage over the records of rows with group key k, and their number
RECURSIVE GroupSum(_, _)
GroupSum(rows, k) ==
    IF rows = <<>> THEN 0
    ELSE (IF GroupKey(Head(rows)) = k THEN Head(rows).CPU_Usage ELSE 0)
             + GroupSum(Tail(rows), k)

RECURSIVE GroupCount(_, _)
GroupCount(rows, k) ==
    IF rows = <<>> THEN 0
    ELSE (IF GroupKey(Head(rows)) = k THEN 1 ELSE 0) + GroupCount(Tail(rows), k)

\* lines 353-356: groupby([...])["CPU_Usage"].mean().reset_index(), Date_Hour renamed
GroupByMean(rows) ==
    LET keys == SortedKeys({GroupKey(rows[i]) : i \in 1..Len(rows)})
    IN  [g \in 1..Len(keys) |->
            [Date |-> keys[g][1], NE |-> keys[g][2],
             VM_Name |-> keys[g][3], VM_Type |-> keys[g][4],
             CPU_Usage |-> Ratio(GroupSum(rows, keys[g]), GroupCount(rows, keys[g]))]]

\* line 359: the order of sort_values(["VM_Name", "Date"])
TrendLess(a, b) ==
    \/ StrLess(a.VM_Name, b.VM_Name)
    \/ a.VM_Name = b.VM_Name /\ a.Date < b.Date

\* row put into the sorted sequence after the rows that are not greater
RECURSIVE InsertSorted(_, _)
InsertSorted(sorted, row) ==
    IF sorted = <<>> THEN <<row>>
    ELSE IF TrendLess(row, Head(sorted)) THEN <<row>> \o sorted
    ELSE <<Head(sorted)>> \o InsertSorted(Tail(sorted), row)

\* the rows left in the order of the groups
SortValues_KeepGroupOrder(rows) == rows

\* line 359: sort_values(["VM_Name", "Date"]), rows with equal keys kept in order
RECURSIVE SortValues(_)
SortValues(rows) ==
    IF rows = <<>> THEN <<>>
    ELSE InsertSorted(SortValues(SubSeq(rows, 1, Len(rows) - 1)), rows[Len(rows)])

\* lines 350-359: df_trend
Trend(rows) == SortValues(GroupByMean(rows))

(***************************************************************************)
(* The colour maps: generate_color_map (lines 136-187) and                 *)
(* generate_color_map_single_ne (lines 189-225).                           *)
(***************************************************************************)
\* lines 145-156 and 194-205: FIXED_HUES, in tenths of a turn
FIXED_HUES == <<0, 1, 2, 3, 4, 5, 6, 7, 8, 9>>

\* .unique(): the values of a sequence in the order of their first appearance
RECURSIVE Unique(_)
Unique(values) ==
    IF values = <<>> THEN <<>>
    ELSE LET before == Unique(SubSeq(values, 1, Len(values) - 1))
             last == values[Len(values)]
         IN  IF \E p \in 1..Len(before) : before[p] = last
             THEN before
             ELSE Append(before, last)

\* name put into the sorted sequence after the names that are not greater
RECURSIVE InsertName(_, _)
InsertName(sorted, name) ==
    IF sorted = <<>> THEN <<name>>
    ELSE IF StrLess(name, Head(sorted)) THEN <<name>> \o sorted
    ELSE <<Head(sorted)>> \o InsertName(Tail(sorted), name)

\* the names left in the order they come in
SortedNames_AsGiven(names) == names

\* sorted(...) of a list of str
RECURSIVE SortedNames(_)
SortedNames(names) ==
    IF names = <<>> THEN <<>>
    ELSE InsertName(SortedNames(SubSeq(names, 1, Len(names) - 1)), names[Len(names)])

\* df["NE Name"] of a table
NeColumn(rows) == [i \in 1..Len(rows) |-> rows[i].NE]

\* df[df["NE Name"] == ne]["VM_Type"]
RECURSIVE VmTypesOf(_, _)
VmTypesOf(rows, ne) ==
    IF rows = <<>> THEN <<>>
    ELSE IF Head(rows).NE = ne THEN <<Head(rows).VM_Type>> \o VmTypesOf(Tail(rows), ne)
    ELSE VmTypesOf(Tail(rows), ne)

\* A colour before its conversion: hue in tenths of a turn, lightness l / scale,
\* saturation s / scale.  short says that the double holding the lightness is the
\* one just below l / scale: 0.70 - 1.0 * 0.20 is 0.49999999999999994 in binary
\* floating point, every other lightness and saturation computed here converts as
\* its exact value does.
Hls(hue, l, s, scale, short) ==
    [hue |-> hue, l |-> l, s |-> s, scale |-> scale, short |-> short]

\* colorsys._v(m1, m2, hue), hue in thirtieths of a turn; the value is in units of
\* 1 / (5 * scale^2), as m1 and m2 are in units of 1 / scale^2
HueValue(m1, m2, hue) ==
    LET h == hue % 30
    IN  IF h < 5 THEN 5 * m1 + (m2 - m1) * h
        ELSE IF h < 15 THEN 5 * m2
        ELSE IF h < 20 THEN 5 * m1 + (m2 - m1) * (20 - h)
        ELSE 5 * m1

\* colorsys.hls_to_rgb(h, l, s): r, g, b in units of 1 / (5 * scale^2)
hls_to_rgb(c) ==
    IF c.s = 0 THEN <<5 * c.l * c.scale, 5 * c.l * c.scale, 5 * c.l * c.scale>>
    ELSE LET m2 == IF 2 * c.l <= c.scale
                   THEN c.l * (c.scale + c.s)
                   ELSE c.l * c.scale + c.s * c.scale - c.l * c.s
             m1 == 2 * c.l * c.scale - m2
         IN  <<HueValue(m1, m2, 3 * c.hue + 10), HueValue(m1, m2, 3 * c.hue),
               HueValue(m1, m2, 3 * c.hue + 20)>>

\* int(x * 255) for x in units of 1 / (5 * scale^2): the floor, which is one less
\* than the exact product when that is a whole number and the double is short of it
Int255(x, scale, short) ==
    LET unit == scale * scale
        whole == (51 * x) \div unit
    IN  IF short /\ x > 0 /\ (51 * x) % unit = 0 THEN whole - 1 ELSE whole

\* the <<hue, channel>> whose double, computed from the short lightness, is not
\* short of its exact value: the rounding of (m2 - m1) * hue * 6.0 makes up for it
\* (hue 0.10 gives g * 255 = 153.0, hue 0.40 gives b * 255 = 102.00000000000003)
RoundedUp == {<<1, 2>>, <<4, 3>>}

HexDigits == <<"0", "1", "2", "3", "4", "5", "6", "7", "8", "9", "a", "b", "c", "d", "e", "f">>

\* the format 02x of a channel
Hex02(n) == <<HexDigits[(n \div 16) + 1], HexDigits[(n % 16) + 1]>>

\* lines 181-182 and 219-220: color_hex
ColorHex(c) ==
    LET rgb == hls_to_rgb(c)
        byte(channel) ==
            Int255(rgb[channel], c.scale, c.short /\ <<c.hue, channel>> \notin RoundedUp)
    IN  <<"#">> \o Hex02(byte(1)) \o Hex02(byte(2)) \o Hex02(byte(3))

\* line 176: num_types
NumTypes(ne_vm_types) == IF Len(ne_vm_types) - 1 > 1 THEN Len(ne_vm_types) - 1 ELSE 1

\* lines 177-178: saturation 0.70 + (j / num_types) * 0.30 and lightness
\* 0.70 - (j / num_types) * 0.20, in units of 1 / (10 * num_types)
TypeHls(base_hue, j, num_types) ==
    Hls(base_hue, 7 * num_types - 2 * j, 7 * num_types + 3 * j, 10 * num_types, j = num_types)

\* lines 215-216: saturation 0.85 and lightness 0.60, in hundredths
SingleHls(hue) == Hls(hue, 60, 85, 100, FALSE)

\* line 167: color_map = {}
EmptyMap == [key \in {} |-> <<>>]

\* line 185: color_map[legend_key] = color_hex
Put(colors, legend_key, color_hex) ==
    [key \in DOMAIN colors \cup {legend_key} |->
        IF key = legend_key THEN color_hex ELSE colors[key]]

\* lines 172-185: the loop over ne_vm_types from position j (0-based)
RECURSIVE TypeColors(_, _, _, _)
TypeColors(colors, base_hue, ne_vm_types, j) ==
    IF j >= Len(ne_vm_types) THEN colors
    ELSE LET legend_key == ne_vm_types[j + 1]
             color_hex == ColorHex(TypeHls(base_hue, j, NumTypes(ne_vm_types)))
         IN  TypeColors(Put(colors, legend_key, color_hex), base_hue, ne_vm_types, j + 1)

\* lines 162-164 and 168-185: the loop over ne_names from position i (0-based)
RECURSIVE NeColors(_, _, _, _)
NeColors(colors, rows, ne_names, i) ==
    IF i >= Len(ne_names) THEN colors
    ELSE LET base_hue == FIXED_HUES[(i % Len(FIXED_HUES)) + 1]
             ne_vm_types == SortedNames(Unique(VmTypesOf(rows, ne_names[i + 1])))
         IN  NeColors(TypeColors(colors, base_hue, ne_vm_types, 0), rows, ne_names, i + 1)

\* lines 136-187: generate_color_map(df)
generate_color_map(rows) ==
    NeColors(EmptyMap, rows, SortedNames(Unique(NeColumn(rows))), 0)

\* lines 210-223: the loop over vm_types from position i (0-based)
RECURSIVE SingleColors(_, _, _)
SingleColors(colors, vm_types, i) ==
    IF i >= Len(vm_types) THEN colors
    ELSE LET hue == FIXED_HUES[(i % Len(FIXED_HUES)) + 1]
         IN  SingleColors(Put(colors, vm_types[i + 1], ColorHex(SingleHls(hue))),
                          vm_types, i + 1)

\* lines 189-225: generate_color_map_single_ne(df, ne_name)
generate_color_map_single_ne(rows, ne) ==
    SingleColors(EmptyMap, SortedNames(Unique(VmTypesOf(rows, ne))), 0)

(***************************************************************************)
(* The files load_data is run on.                                          *)
(***************************************************************************)
MaxBanner == 51

MaxRows == 2

H_NEW == <<START_TIME, NE_NAME, VM, MAXIMUM_CPU_LOAD, MEAN_CPU_LOAD>>

H_OLD == <<START_TIME, NE_NAME, VM, CPU_MAX_USAGE, CPU_AVERAGE_USAGE>>

H_BOTH ==
    <<START_TIME, NE_NAME, VM, CPU_MAX_USAGE, CPU_AVERAGE_USAGE,
      MAXIMUM_CPU_LOAD, MEAN_CPU_LOAD>>

H_PADDED == <<K_START_TIME_PAD, K_NE_NAME_PAD, K_VM_PAD, CPU_MAX_USAGE, CPU_AVERAGE_USAGE>>

H_NO_CPU == <<START_TIME, NE_NAME, VM>>

H_VALUES_ONLY == <<START_TIME, NE_NAME, VM, MEAN_CPU_LOAD, CPU_AVERAGE_USAGE>>

H_NEW_NO_MEAN == <<START_TIME, NE_NAME, VM, MAXIMUM_CPU_LOAD, CPU_AVERAGE_USAGE>>

H_OLD_NO_AVERAGE == <<START_TIME, NE_NAME, VM, CPU_MAX_USAGE, MEAN_CPU_LOAD>>

H_NO_NE_NAME == <<START_TIME, VM, MAXIMUM_CPU_LOAD, MEAN_CPU_LOAD>>

H_NO_VM == <<START_TIME, NE_NAME, MAXIMUM_CPU_LOAD, MEAN_CPU_LOAD>>

H_NO_VM_NO_CPU == <<START_TIME, NE_NAME>>

H_RENAMED_TIME == <<K_START_TIME_UTC, NE_NAME, VM, MAXIMUM_CPU_LOAD, MEAN_CPU_LOAD>>

H_NO_TOKENS == <<K_TIME, K_HOST, VM, MAXIMUM_CPU_LOAD, MEAN_CPU_LOAD>>

Headers ==
    {H_NEW, H_OLD, H_BOTH, H_PADDED, H_NO_CPU, H_VALUES_ONLY, H_NEW_NO_MEAN,
     H_OLD_NO_AVERAGE, H_NO_NE_NAME, H_NO_VM, H_NO_VM_NO_CPU, H_RENAMED_TIME,
     H_NO_TOKENS}

NE1 == <<"N", "E", "1">>

NE2 == <<"N", "E", "2">>

VM_OLD == Str(L_OLD_NODE \o T_SPU_B \o F_INDEX)

VM_NEW == Str(L_NEW \o S_ARQ)

R_GOOD_OLD == [StartTime |-> 0, NE |-> NE1, VM |-> VM_OLD, Mean |-> 10, Avg |-> 40]

R_GOOD_NEW == [StartTime |-> 3, NE |-> NE2, VM |-> VM_NEW, Mean |-> 20, Avg |-> 50]

R_BAD_TIME == [StartTime |-> NaT, NE |-> NE1, VM |-> VM_OLD, Mean |-> 10, Avg |-> 40]

R_NO_VM == [StartTime |-> 1, NE |-> NE1, VM |-> None, Mean |-> 10, Avg |-> 40]

R_NO_CPU == [StartTime |-> 1, NE |-> NE2, VM |-> VM_NEW, Mean |-> NaN, Avg |-> NaN]

R_NO_MEAN == [StartTime |-> 2, NE |-> NE2, VM |-> VM_OLD, Mean |-> NaN, Avg |-> 40]

\* a whitespace-only descriptor
R_BLANK_VM == [StartTime |-> 2, NE |-> NE1, VM |-> Str(L_SPACE), Mean |-> 10, Avg |-> 40]

\* "Virtual machine name=" followed by nothing
R_NEW_NOTHING == [StartTime |-> 2, NE |-> NE1, VM |-> Str(L_NEW), Mean |-> 10, Avg |-> 40]

\* a new-format name ending in '_'
R_NEW_TRAILING ==
    [StartTime |-> 2, NE |-> NE1, VM |-> Str(L_NEW \o T_OMU \o F_UNDERSCORE),
     Mean |-> 10, Avg |-> 40]

RowPool ==
    {R_GOOD_OLD, R_GOOD_NEW, R_BAD_TIME, R_NO_VM, R_NO_CPU, R_NO_MEAN,
     R_BLANK_VM, R_NEW_NOTHING, R_NEW_TRAILING}

RECURSIVE RowSeqs(_)
RowSeqs(n) ==
    IF n = 0 THEN {<<>>}
    ELSE LET shorter == RowSeqs(n - 1)
         IN  shorter \cup {Append(rs, r) : rs \in shorter, r \in RowPool}

File(pre, header, rows, unreadable) ==
    [pre |-> pre, header |-> header, rows |-> rows, unreadable |-> unreadable]

\* k banner lines of one cell each
Banners(k) == [i \in 1..k |-> <<K_BANNER>>]

\* the header anywhere from the first line to beyond the scanned lines, and two
\* files whose banner holds one or both header tokens
HeaderFiles ==
    {File(pre, h, <<R_GOOD_OLD, R_BAD_TIME>>, FALSE) :
        pre \in {Banners(k) : k \in 0..MaxBanner}
                  \cup {<<<<K_BANNER_START>>, <<K_BANNER>>>>,
                        <<<<K_BANNER>>, <<K_BANNER_BOTH>>>>},
        h \in {H_NEW, H_OLD, H_NO_TOKENS}}

ColumnFiles ==
    {File(pre, h, rows, u) :
        pre \in {<<>>, Banners(1)}, h \in Headers,
        rows \in {<<>>, <<R_GOOD_OLD, R_NO_MEAN>>}, u \in BOOLEAN}

RowFiles ==
    {File(<<>>, h, rows, FALSE) : h \in {H_NEW, H_OLD, H_BOTH}, rows \in RowSeqs(MaxRows)}

Files == HeaderFiles \cup ColumnFiles \cup RowFiles

NoFile == File(<<>>, <<>>, <<>>, FALSE)

\* st.session_state of a new session
NoSessionState == [key \in {} |-> 0]

\* the dashboard's variables while the dashboard is not run
DashboardIdle ==
    /\ selection = [start_date |-> 0, end_date |-> 0, selected_nes |-> {}, selected_types |-> {}]
    /\ df_filtered = <<>>
    /\ df_trend = <<>>
    /\ color_map = EmptyMap
    /\ color_map_single = EmptyMap
    /\ ne_name = <<>>
    /\ session_state = NoSessionState
    /\ unique_nes = <<>>
    /\ page_nes = <<>>

\* the loader's variables while the loader is not run
LoadIdle ==
    /\ uploaded_file = NoFile
    /\ header_row = -1
    /\ df = NoDf
    /\ st_errors = <<>>
    /\ load_ret = "none"

(***************************************************************************)
(* Specification of the parser alone: one call of extract_vm_info.         *)
(***************************************************************************)
InitParse ==
    /\ pc = "call"
    /\ vm_str \in {None} \cup {Str(d) : d \in Descriptors}
    /\ vm_name = None
    /\ vm_type = None
    /\ LoadIdle
    /\ DashboardIdle

Classify ==
    /\ pc = "call"
    /\ LET info == extract_vm_info(vm_str)
       IN  /\ vm_name' = info[1]
           /\ vm_type' = info[2]
    /\ pc' = "returned"
    /\ UNCHANGED <<vm_str, uploaded_file, header_row, df, st_errors, load_ret,
                   selection, df_filtered, df_trend, chartVars>>

NextParse == Classify

SpecParse == InitParse /\ [][NextParse]_vars

(***************************************************************************)
(* Specification of the loader: load_data on the active file, then the     *)
(* script's test of its result (lines 298-300, 588-589).                   *)
(***************************************************************************)
InitLoad ==
    /\ pc = "load"
    /\ uploaded_file \in Files
    /\ header_row = -1
    /\ df = NoDf
    /\ st_errors = <<>>
    /\ load_ret = "none"
    /\ vm_str = None /\ vm_name = None /\ vm_type = None
    /\ DashboardIdle

\* line 298: df = load_data(active_file)
LoadData ==
    /\ pc = "load"
    /\ LET r == load_data(uploaded_file)
       IN  /\ df' = r.df
           /\ st_errors' = st_errors \o r.errors
           /\ load_ret' = r.ret
    /\ header_row' = HeaderRow(uploaded_file)
    /\ pc' = "loaded"
    /\ UNCHANGED <<uploaded_file, vm_str, vm_name, vm_type, selection, df_filtered, df_trend, chartVars>>

\* lines 300, 588-589: no DataFrame, or an empty one
ShowFormatError ==
    /\ pc = "loaded"
    /\ df.none \/ df.rows = <<>>
    /\ st_errors' = Append(st_errors, "El archivo seleccionado no tiene el formato esperado o esta vacio.")
    /\ pc' = "error_shown"
    /\ UNCHANGED <<uploaded_file, header_row, df, load_ret, vm_str, vm_name, vm_type,
                   selection, df_filtered, df_trend, chartVars>>

\* line 300: a DataFrame with rows goes on to the dashboard
ShowDashboard ==
    /\ pc = "loaded"
    /\ ~df.none /\ df.rows # <<>>
    /\ pc' = "dashboard"
    /\ UNCHANGED <<uploaded_file, header_row, df, st_errors, load_ret, vm_str, vm_name, vm_type,
                   selection, df_filtered, df_trend, chartVars>>

NextLoad == LoadData \/ ShowFormatError \/ ShowDashboard

SpecLoad == InitLoad /\ [][NextLoad]_vars

(***************************************************************************)
(* The Datasets the dashboard is run on: what load_data makes of up to     *)
(* MaxRecs rows of a new-schema file.                                      *)
(***************************************************************************)
MaxRecs == 3

VM_SPU == Str(L_OLD \o T_SPU_B \o F_INDEX)

VM_IPU == Str(L_OLD \o S_LOWER \o F_INDEX)

\* the new format of a name the old format types differently
VM_IPU_NEW == Str(L_NEW \o S_X \o F_UNDERSCORE \o S_LOWER \o F_INDEX)

TrendRow(time, ne, vm, cpu) ==
    [StartTime |-> time, NE |-> ne, VM |-> vm, Mean |-> cpu, Avg |-> NaN]

TrendRowPool ==
    {TrendRow(0, NE1, VM_SPU, 10), TrendRow(1, NE1, VM_SPU, 40),
     TrendRow(2, NE1, VM_SPU, 10), TrendRow(25, NE1, VM_SPU, 40),
     TrendRow(0, NE1, VM_IPU, 40), TrendRow(3, NE1, VM_IPU, 10),
     TrendRow(1, NE2, VM_SPU, 10), TrendRow(0, NE1, VM_IPU_NEW, 10)}

RECURSIVE TrendRowSeqs(_)
TrendRowSeqs(n) ==
    IF n = 0 THEN {<<>>}
    ELSE LET shorter == TrendRowSeqs(n - 1)
         IN  shorter \cup {Append(rs, r) : rs \in shorter, r \in TrendRowPool}

TrendDatasets ==
    {ResolveCpu(StripColumns(H_NEW), rows).df : rows \in TrendRowSeqs(MaxRecs) \ {<<>>}}

\* lines 302-319: what the widgets offer for a Dataset
AllNes(rows) == {rows[i].NE : i \in 1..Len(rows)}

AllTypes(rows) == {rows[i].VM_Type.str : i \in 1..Len(rows)}

AllDays(rows) == {DateOf(rows[i].Date) : i \in 1..Len(rows)}

MinDay(rows) == CHOOSE d \in AllDays(rows) : \A e \in AllDays(rows) : d <= e

MaxDay(rows) == CHOOSE d \in AllDays(rows) : \A e \in AllDays(rows) : e <= d

Selection(start, end, nes, types) ==
    [start_date |-> start, end_date |-> end, selected_nes |-> nes, selected_types |-> types]

\* the selections tried: the defaults, one or no NE Name, one VM Type, one day
Selections(rows) ==
    LET nes == AllNes(rows)
        types == AllTypes(rows)
        first == MinDay(rows)
        last == MaxDay(rows)
    IN  {Selection(first, last, nes, types), Selection(first, last, {}, types)}
            \cup {Selection(first, last, {n}, types) : n \in nes}
            \cup {Selection(first, last, nes, {ty}) : ty \in types}
            \cup {Selection(d, d, nes, types) : d \in {first, last}}

(***************************************************************************)
(* Specification of the dashboard: one run of the script below line 300.   *)
(***************************************************************************)
InitTrend ==
    /\ pc = "dashboard"
    /\ df \in TrendDatasets
    /\ load_ret = "276"
    /\ uploaded_file = NoFile
    /\ header_row = 0
    /\ st_errors = <<>>
    /\ vm_str = None /\ vm_name = None /\ vm_type = None
    /\ DashboardIdle

\* lines 302-330: the widgets' values and df_filtered
ApplyFilters ==
    /\ pc = "dashboard"
    /\ \E sel \in Selections(df.rows) :
           /\ selection' = sel
           /\ df_filtered' = Loc(df.rows, sel.start_date, sel.end_date,
                                 sel.selected_nes, sel.selected_types)
    /\ pc' = "filtered"
    /\ UNCHANGED <<df_trend, df, load_ret, uploaded_file, header_row, st_errors,
                   vm_str, vm_name, vm_type, chartVars>>

\* lines 332-333: df_filtered.empty
ShowNoData ==
    /\ pc = "filtered"
    /\ df_filtered = <<>>
    /\ pc' = "no_data"
    /\ UNCHANGED <<selection, df_filtered, df_trend, df, load_ret, uploaded_file,
                   header_row, st_errors, vm_str, vm_name, vm_type, chartVars>>

\* lines 349-359: df_trend
BuildTrend ==
    /\ pc = "filtered"
    /\ df_filtered # <<>>
    /\ df_trend' = Trend(df_filtered)
    /\ pc' = "trend"
    /\ UNCHANGED <<selection, df_filtered, df, load_ret, uploaded_file,
                   header_row, st_errors, vm_str, vm_name, vm_type, chartVars>>

NextTrend == ApplyFilters \/ ShowNoData \/ BuildTrend

SpecTrend == InitTrend /\ [][NextTrend]_vars

(***************************************************************************)
(* The trend tables the colour maps are made for: the rows in any order.   *)
(***************************************************************************)
MaxPairs == 3

MaxWide == 11

Digits == <<"0", "1", "2", "3", "4", "5", "6", "7", "8", "9">>

\* the NE Names N00, N01, ... and the VM types T00, T01, ...
NeName(k) == <<"N", Digits[(k \div 10) + 1], Digits[(k % 10) + 1]>>

TypeName(k) == <<"T", Digits[(k \div 10) + 1], Digits[(k % 10) + 1]>>

\* a row of a trend table
ColorRow(ne, type) ==
    [Date |-> 0, NE |-> ne, VM_Name |-> type \o F_INDEX, VM_Type |-> type,
     CPU_Usage |-> Ratio(10, 1)]

\* SPU_B is a type of both NEs
PairPool ==
    {ColorRow(NE1, T_SPU_B), ColorRow(NE1, T_IPU_A), ColorRow(NE1, S_LOWER),
     ColorRow(NE2, T_SPU_B), ColorRow(NE2, T_OMU)}

RECURSIVE PairSeqs(_)
PairSeqs(n) ==
    IF n = 0 THEN {<<>>}
    ELSE LET shorter == PairSeqs(n - 1)
         IN  shorter \cup {Append(rs, r) : rs \in shorter, r \in PairPool}

Reversed(rows) == [i \in 1..Len(rows) |-> rows[Len(rows) + 1 - i]]

\* n NEs of one type each, and one NE of n types
WideNes(n) == [i \in 1..n |-> ColorRow(NeName(i - 1), TypeName(i - 1))]

WideTypes(n) == [i \in 1..n |-> ColorRow(NE1, TypeName(i - 1))]

WideTables ==
    LET forward == {WideNes(n) : n \in 1..MaxWide} \cup {WideTypes(n) : n \in 1..MaxWide}
    IN  forward \cup {Reversed(rows) : rows \in forward}

ColorTables ==
    (PairSeqs(MaxPairs) \ {<<>>})
        \cup {head \o wide : head \in PairSeqs(1), wide \in WideTables}
        \cup {wide \o head : head \in PairSeqs(1), wide \in WideTables}

(***************************************************************************)
(* Specification of the colour maps: lines 365-377 on a trend table.       *)
(***************************************************************************)
InitColor ==
    /\ pc = "trend"
    /\ df_trend \in ColorTables
    /\ df = NoDf
    /\ load_ret = "none"
    /\ uploaded_file = NoFile
    /\ header_row = 0
    /\ st_errors = <<>>
    /\ vm_str = None /\ vm_name = None /\ vm_type = None
    /\ selection = [start_date |-> 0, end_date |-> 0, selected_nes |-> {}, selected_types |-> {}]
    /\ df_filtered = <<>>
    /\ color_map = EmptyMap
    /\ color_map_single = EmptyMap
    /\ ne_name = <<>>
    /\ session_state = NoSessionState
    /\ unique_nes = <<>>
    /\ page_nes = <<>>

\* lines 365-368: color_map and unique_nes
GenerateColorMap ==
    /\ pc = "trend"
    /\ color_map' = generate_color_map(df_trend)
    /\ unique_nes' = SortedNames(Unique(NeColumn(df_trend)))
    /\ pc' = "color_map"
    /\ UNCHANGED <<vm_str, vm_name, vm_type, uploaded_file, header_row, df, st_errors,
                   load_ret, selection, df_filtered, df_trend,
                   color_map_single, ne_name, session_state, page_nes>>

\* lines 373-377, 439-443, 487-491: color_map_single for an NE Name of unique_nes
GenerateColorMapSingleNe ==
    /\ pc = "color_map"
    /\ \E p \in 1..Len(unique_nes) :
           /\ ne_name' = unique_nes[p]
           /\ color_map_single' = generate_color_map_single_ne(df_trend, unique_nes[p])
    /\ pc' = "color_map_single"
    /\ UNCHANGED <<vm_str, vm_name, vm_type, uploaded_file, header_row, df, st_errors,
                   load_ret, selection, df_filtered, df_trend,
                   color_map, session_state, unique_nes, page_nes>>

NextColor == GenerateColorMap \/ GenerateColorMapSingleNe

SpecColor == InitColor /\ [][NextColor]_vars

(***************************************************************************)
(* The charts of a run of the script (lines 361-545) and the session: the  *)
(* reruns a click, a change of filters or a change of file make.           *)
(***************************************************************************)
\* line 416: GRAPHS_PER_PAGE
GRAPHS_PER_PAGE == 6

\* line 418: total_pages
TotalPages(total_nes) == (total_nes + GRAPHS_PER_PAGE - 1) \div GRAPHS_PER_PAGE

\* lines 421-422: current_page put into the session state when it is not there
WithCurrentPage(session) ==
    IF "current_page" \in DOMAIN session THEN session ELSE [current_page |-> 0]

\* lines 428-430: page_nes = unique_nes[start_idx:end_idx]
PageNes(nes, current_page) ==
    LET start_idx == current_page * GRAPHS_PER_PAGE
        end_idx == IF start_idx + GRAPHS_PER_PAGE < Len(nes)
                   THEN start_idx + GRAPHS_PER_PAGE
                   ELSE Len(nes)
    IN  SubSeq(nes, start_idx + 1, end_idx)

\* lines 300-545: one run of the script on Dataset d with the widget values sel
\* and the session state session; the variables a run does not assign are empty
RunScript(d, sel, session) ==
    LET filtered == Loc(d.rows, sel.start_date, sel.end_date,
                        sel.selected_nes, sel.selected_types)
        trend == Trend(filtered)
        nes == SortedNames(Unique(NeColumn(trend)))
        paged == WithCurrentPage(session)
        shown == PageNes(nes, paged.current_page)
    IN  /\ df' = d
        /\ selection' = sel
        /\ df_filtered' = filtered
        /\ IF filtered = <<>>
           THEN /\ pc' = "no_data"
                /\ df_trend' = <<>>
                /\ color_map' = EmptyMap
                /\ unique_nes' = <<>>
                /\ page_nes' = <<>>
                /\ ne_name' = <<>>
                /\ color_map_single' = EmptyMap
                /\ session_state' = session
           ELSE /\ df_trend' = trend
                /\ color_map' = generate_color_map(trend)
                /\ unique_nes' = nes
                /\ IF Len(nes) = 1
                   THEN /\ pc' = "single"
                        /\ page_nes' = <<>>
                        /\ ne_name' = nes[1]
                        /\ color_map_single' = generate_color_map_single_ne(trend, nes[1])
                        /\ session_state' = session
                   ELSE /\ pc' = "multi"
                        /\ page_nes' = shown
                        /\ ne_name' = IF shown = <<>> THEN <<>> ELSE shown[Len(shown)]
                        /\ color_map_single' =
                               IF shown = <<>> THEN EmptyMap
                               ELSE generate_color_map_single_ne(trend, shown[Len(shown)])
                        /\ session_state' = paged

\* the Datasets of the session: n NEs with one VM each
MaxNes == 13

PageDataset(n) ==
    ResolveCpu(StripColumns(H_NEW),
               [i \in 1..n |-> TrendRow(0, NeName(i - 1), VM_SPU, 10)]).df

PageDatasets == {PageDataset(n) : n \in 1..MaxNes}

\* lines 305-319: the values the widgets have before the user touches them
DefaultSelection(rows) ==
    Selection(MinDay(rows), MaxDay(rows), AllNes(rows), AllTypes(rows))

\* the selections tried: the first m NE Names of the Dataset, all else as it is
PageSelections(rows) ==
    LET all_nes == SortedNames(Unique(NeColumn(rows)))
    IN  {Selection(MinDay(rows), MaxDay(rows),
                   {all_nes[p] : p \in 1..m}, AllTypes(rows)) : m \in 0..Len(all_nes)}

(***************************************************************************)
(* Specification of a session: a first run, then reruns.                   *)
(***************************************************************************)
loadVars == <<vm_str, vm_name, vm_type, uploaded_file, header_row, st_errors, load_ret>>

InitPage ==
    /\ pc = "dashboard"
    /\ df \in PageDatasets
    /\ load_ret = "276"
    /\ uploaded_file = NoFile
    /\ header_row = 0
    /\ st_errors = <<>>
    /\ vm_str = None /\ vm_name = None /\ vm_type = None
    /\ DashboardIdle

\* the first run of the session, on the Dataset of the file
FirstRun ==
    /\ pc = "dashboard"
    /\ RunScript(df, DefaultSelection(df.rows), NoSessionState)
    /\ UNCHANGED loadVars

Rendered == pc \in {"no_data", "single", "multi"}

\* lines 316-330: the user changes the NE Name filter; the script reruns
ChangeFilters ==
    /\ Rendered
    /\ \E sel \in PageSelections(df.rows) :
           /\ sel # selection
           /\ RunScript(df, sel, session_state)
    /\ UNCHANGED loadVars

\* lines 297-298: the user makes another file the active file; the script reruns
\* on its Dataset with the widgets at their defaults
ChangeFile ==
    /\ Rendered
    /\ \E d \in PageDatasets :
           /\ d # df
           /\ RunScript(d, DefaultSelection(d.rows), session_state)
    /\ UNCHANGED loadVars

\* lines 534-537: a click on "Anterior", which is there when the page is not 0
ClickPrev ==
    /\ pc = "multi"
    /\ session_state.current_page # 0
    /\ RunScript(df, selection, [current_page |-> session_state.current_page - 1])
    /\ UNCHANGED loadVars

\* lines 542-545: a click on "Siguiente", which is there before the last page
ClickNext ==
    /\ pc = "multi"
    /\ ~(session_state.current_page >= TotalPages(Len(unique_nes)) - 1)
    /\ RunScript(df, selection, [current_page |-> session_state.current_page + 1])
    /\ UNCHANGED loadVars

NextPage == FirstRun \/ ChangeFilters \/ ChangeFile \/ ClickPrev \/ ClickNext

SpecPage == InitPage /\ [][NextPage]_vars

(***************************************************************************)
(* Properties of extract_vm_info (checked under SpecParse).                *)
(***************************************************************************)
Returned == pc = "returned" /\ ~vm_str.nil

\* the descriptor as written, and trimmed
Descriptor == vm_str.str

Trimmed == Strip(vm_str.str)

IsLegacy == ~Contains(Descriptor, TRIGGER_NEW)

\* the rule order the specification fixes
RuleOrder ==
    << T_IPU_A, T_IPU_B_ARM, T_IPU_B, T_ISU_ARM, T_ISU_C48, T_SDU_A_ARM, T_SDU_A,
       T_SPU_CGW, T_SPU_B, T_SPU_C, T_SPU_K1, T_SPU_O, T_SPU_P, T_SPU_J_ARM,
       T_SPU_J, T_SPU_M_ARM, T_SPU_M, T_SPU_G, T_OMU >>

\* ty is the type the specification gives the name n
TypeOfName(n, ty) ==
    LET u == Upper(n)
        matching == {k \in 1..Len(RuleOrder) : Contains(u, RuleOrder[k])}
    IN  IF matching # {}
        THEN \E k \in matching : (\A j \in matching : k <= j) /\ ty = RuleOrder[k]
        ELSE IF n # <<>> /\ n[1] \in UpperSet
        THEN \E m \in 1..Len(n) :
                /\ \A q \in 1..m : n[q] \in UpperSet
                /\ m = Len(n) \/ n[m + 1] \notin UpperSet
                /\ ty = SubSeq(n, 1, m)
        ELSE ty = UNKNOWN

\* the positions of text at which VM Name= starts
KeyAt(text) == {i \in 1..Len(text) : StartsAt(text, i, VM_NAME_KEY)}

\* the value after the VM Name= at position i: up to the next comma or double quote
ValueAfter(text, i) ==
    LET b == i + Len(VM_NAME_KEY)
        stops == {j \in b..Len(text) : text[j] \in {",", "\""}}
        e == IF stops = {} THEN Len(text) ELSE (CHOOSE j \in stops : \A k \in stops : j <= k) - 1
    IN  SubSeq(text, b, e)

\* the VM Name= occurrences of text that a value follows
ValuedKeyAt(text) == {i \in KeyAt(text) : ValueAfter(text, i) # <<>>}

Least(S) == CHOOSE i \in S : \A j \in S : i <= j

\* C1 as stated: for a legacy descriptor containing VM Name=X, X the text after the
\* first VM Name= up to the next comma or double quote (empty X included), vm_name
\* is X trimmed and vm_type is the token of the first rule of the fixed order found
\* in the upper-cased vm_name, else its leading upper-case run, else UNKNOWN.
C1_AsStated ==
    Returned /\ IsLegacy /\ KeyAt(Descriptor) # {} =>
        LET X == Strip(ValueAfter(Descriptor, Least(KeyAt(Descriptor))))
        IN  /\ vm_name = Str(X)
            /\ TypeOfName(X, vm_type.str)

\* C1 amended: for a legacy descriptor whose trimmed text has a VM Name= directly
\* followed by a character other than comma and double quote, with X the run of
\* such characters after the first such VM Name=, vm_name is X trimmed; otherwise
\* (no VM Name=, or only with an empty value) vm_name is the whole trimmed
\* descriptor.  In both cases vm_type is the token of the first rule of the fixed
\* order found in the upper-cased vm_name, else the leading upper-case run of
\* vm_name, else UNKNOWN.
C1_LegacyNameAndType ==
    Returned /\ IsLegacy =>
        LET valued == ValuedKeyAt(Trimmed)
            X == IF valued # {} THEN Strip(ValueAfter(Trimmed, Least(valued))) ELSE Trimmed
        IN  /\ vm_name = Str(X)
            /\ TypeOfName(X, vm_type.str)

\* C1 witness: "nodeName=VNFP, VM Name=IPU_B_ARM_3" has been classified as the
\* name IPU_B_ARM_3 of type IPU_B_ARM.
C1_Witness ==
    /\ pc = "returned"
    /\ vm_str = Str(L_OLD_NODE \o T_IPU_B_ARM \o F_INDEX)
    /\ vm_name = Str(T_IPU_B_ARM \o F_INDEX)
    /\ vm_type = Str(T_IPU_B_ARM)

\* the text between the first Virtual machine name= of text and the next one (or
\* the end), and the text after the first one
FirstTrigger(text) == Least({i \in 1..Len(text) : StartsAt(text, i, TRIGGER_NEW)})

TextToNextTrigger(text) ==
    LET b == FirstTrigger(text) + Len(TRIGGER_NEW)
        again == {i \in b..Len(text) : StartsAt(text, i, TRIGGER_NEW)}
    IN  SubSeq(text, b, IF again = {} THEN Len(text) ELSE Least(again) - 1)

TextAfterTrigger(text) ==
    SubSeq(text, FirstTrigger(text) + Len(TRIGGER_NEW), Len(text))

UnderscoresOf(full) == {k \in 1..Len(full) : full[k] = "_"}

Greatest(S) == CHOOSE i \in S : \A j \in S : i >= j

\* the name and type the specification gives the new-format name full
NewNameAndType(full) ==
    LET us == UnderscoresOf(full)
    IN  IF us = {}
        THEN vm_name = Str(full) /\ vm_type = Str(UNKNOWN)
        ELSE /\ vm_name = Str(SubSeq(full, Least(us) + 1, Len(full)))
             /\ Cardinality(us) >= 2 =>
                    vm_type = Str(SubSeq(full, Least(us) + 1, Greatest(us) - 1))

\* C2 as stated: for a descriptor containing Virtual machine name=, with full_name
\* the trimmed text following the trigger, vm_name is the tokens after the first
\* joined by '_' and, with more than two tokens, vm_type the tokens between the
\* first and the last; with one token vm_name = full_name and vm_type = UNKNOWN.
C2_AsStated ==
    Returned /\ ~IsLegacy => NewNameAndType(Strip(TextAfterTrigger(Descriptor)))

\* C2 amended: the same with full_name the trimmed text between the first
\* Virtual machine name= and the next occurrence of it (the end of the descriptor
\* when it occurs once).
C2_NewNameAndType ==
    Returned /\ ~IsLegacy => NewNameAndType(Strip(TextToNextTrigger(Descriptor)))

\* C2 witness: "Virtual machine name=ARQ_SBCOMU02_OMUSBIG2_1" followed by a second
\* "Virtual machine name=c_d_e" has been classified from its first name.
C2_Witness ==
    /\ pc = "returned"
    /\ vm_str = Str(L_NEW \o S_ARQ \o E_NEW_AGAIN)
    /\ vm_name = Str(<<"S", "B", "C", "O", "M", "U", "0", "2", "_", "O", "M", "U", "S", "B", "I", "G", "2", "_", "1">>)
    /\ vm_type = Str(<<"S", "B", "C", "O", "M", "U", "0", "2", "_", "O", "M", "U", "S", "B", "I", "G", "2">>)

LoadReturned == pc = "loaded"

\* the column names (trimmed) and the rows pandas reads below the header line
InputColumns == StripColumns(ReadCsv(uploaded_file, header_row).columns)

InputRows == ReadCsv(uploaded_file, header_row).rows

\* the lines among the first 50 that hold both header tokens
HeaderCandidates ==
    LET lines == HeadLines(uploaded_file)
    IN  {i \in 1..Len(lines) : i <= HEADER_SCAN_LINES /\ LineIsHeader(lines[i])}

\* C4 as stated: every record of the Dataset load_data returns has a vm_name that is
\* neither null nor the empty string, and a vm_type that is set.
C4_AsStated ==
    LoadReturned /\ load_ret = "276" =>
        \A i \in 1..Len(df.rows) :
            /\ ~df.rows[i].VM_Name.nil
            /\ df.rows[i].VM_Name.str # <<>>
            /\ ~df.rows[i].VM_Type.nil

\* C5 as stated: the first of the first 50 lines holding both "Start Time" and
\* "NE Name" is the header; when there is none the load fails with SchemaNotFound:
\* a null result that is reported, and is not the MissingColumns return.
C5_AsStated ==
    LoadReturned /\ ~uploaded_file.unreadable =>
        IF HeaderCandidates # {}
        THEN header_row = Least(HeaderCandidates) - 1
        ELSE df.none /\ st_errors # <<>> /\ load_ret # "250"

\* C6 as stated: a file whose trimmed column names lack Start Time, NE Name or VM
\* makes load_data return a null result plus a message, from the check of the
\* required columns and not from the resolution of the CPU column.
C6_AsStated ==
    LoadReturned /\ ~uploaded_file.unreadable /\ ~HasRequired(InputColumns) =>
        df.none /\ st_errors # <<>> /\ load_ret = "250"

\* the value of input row i in the column named source
CellOf(i, source) ==
    IF source = MEAN_CPU_LOAD THEN InputRows[i].Mean ELSE InputRows[i].Avg

\* every record of the Dataset holds the value its input row has in column source
UsageFrom(source) ==
    /\ ~df.none
    /\ \A r \in 1..Len(df.rows) :
           df.rows[r].CPU_Usage = CellOf(df.rows[r].idx + 1, source)

\* C7: once the required columns are there, the usage comes from Mean CPU Load (%)
\* whenever Maximum CPU Load (%) is a column (CPU max usage (%) present or not);
\* else from CPU average usage (%) when CPU max usage (%) is a column; else load_data
\* returns None with the message of line 270.  When the column the usage is to come
\* from is itself missing, load_data returns None from its except branch.
C7_CpuResolution ==
    LoadReturned /\ ~uploaded_file.unreadable /\ HasRequired(InputColumns) =>
        LET cols == InputColumns
        IN  IF MAXIMUM_CPU_LOAD \in cols
            THEN IF MEAN_CPU_LOAD \in cols
                 THEN load_ret = "276" /\ UsageFrom(MEAN_CPU_LOAD)
                 ELSE load_ret = "280" /\ df.none
            ELSE IF CPU_MAX_USAGE \in cols
            THEN IF CPU_AVERAGE_USAGE \in cols
                 THEN load_ret = "276" /\ UsageFrom(CPU_AVERAGE_USAGE)
                 ELSE load_ret = "280" /\ df.none
            ELSE /\ load_ret = "271"
                 /\ df.none
                 /\ st_errors = <<"No se encontro columna de CPU">>

\* C7 witness: a file with the columns of both schemas has been loaded, and a record
\* holds its row's Mean CPU Load (%) value, which differs from the row's
\* CPU average usage (%) value.
C7_Witness ==
    /\ pc = "loaded"
    /\ load_ret = "276"
    /\ {MAXIMUM_CPU_LOAD, CPU_MAX_USAGE, MEAN_CPU_LOAD, CPU_AVERAGE_USAGE} \subseteq InputColumns
    /\ \E r \in 1..Len(df.rows) :
           /\ df.rows[r].CPU_Usage = InputRows[df.rows[r].idx + 1].Mean
           /\ df.rows[r].CPU_Usage # InputRows[df.rows[r].idx + 1].Avg

\* the column the usage is read from, by the columns present
UsageSource == IF MAXIMUM_CPU_LOAD \in InputColumns THEN MEAN_CPU_LOAD ELSE CPU_AVERAGE_USAGE

\* the input rows (1-based) with a parsed timestamp, a non-null vm_name and a numeric usage
ValidInputRows ==
    {i \in 1..Len(InputRows) :
        /\ InputRows[i].StartTime # NaT
        /\ ~extract_vm_info(InputRows[i].VM)[1].nil
        /\ CellOf(i, UsageSource) # NaN}

\* C8: the Dataset of a successful load holds exactly the input rows with a parsed
\* timestamp, a non-null vm_name and a numeric usage, each once, with its values, in
\* input order; its length is the number of input rows minus the dropped ones.
C8_ExactlyValidRows ==
    LoadReturned /\ load_ret = "276" =>
        LET dropped == (1..Len(InputRows)) \ ValidInputRows
        IN  /\ {df.rows[r].idx + 1 : r \in 1..Len(df.rows)} = ValidInputRows
            /\ Len(df.rows) = Len(InputRows) - Cardinality(dropped)
            /\ \A p, q \in 1..Len(df.rows) : p < q => df.rows[p].idx < df.rows[q].idx
            /\ \A r \in 1..Len(df.rows) :
                   LET row == InputRows[df.rows[r].idx + 1]
                   IN  /\ df.rows[r].Date = row.StartTime
                       /\ df.rows[r].NE = row.NE
                       /\ df.rows[r].VM_Name = extract_vm_info(row.VM)[1]
                       /\ df.rows[r].CPU_Usage = CellOf(df.rows[r].idx + 1, UsageSource)

\* C8 witness: a load has dropped a row with an unparsable timestamp that came
\* before a row it kept.
C8_Witness ==
    /\ pc = "loaded"
    /\ load_ret = "276"
    /\ Len(InputRows) = 2
    /\ InputRows[1].StartTime = NaT
    /\ Len(df.rows) = 1
    /\ df.rows[1].idx = 1

(***************************************************************************)
(* Properties of the trend (checked under SpecTrend).                      *)
(***************************************************************************)
TrendBuilt == pc = "trend"

RECURSIVE SumUsage(_)
SumUsage(members) ==
    IF members = {} THEN 0
    ELSE LET i == CHOOSE m \in members : TRUE
         IN  df_filtered[i].CPU_Usage + SumUsage(members \ {i})

\* the filtered records (by position) that fall in the bucket and key of a trend row
MembersOf(row) ==
    {i \in 1..Len(df_filtered) :
        /\ df_filtered[i].NE = row.NE
        /\ df_filtered[i].VM_Name.str = row.VM_Name
        /\ df_filtered[i].VM_Type.str = row.VM_Type
        /\ row.Date <= df_filtered[i].Date
        /\ df_filtered[i].Date < row.Date + BUCKET_HOURS}

C10_SortedByVmThenTime ==
    TrendBuilt =>
        /\ \A p, q \in 1..Len(df_trend) :
               p < q =>
                   \/ StrLess(df_trend[p].VM_Name, df_trend[q].VM_Name)
                   \/ /\ df_trend[p].VM_Name = df_trend[q].VM_Name
                      /\ df_trend[p].Date <= df_trend[q].Date
        /\ \A p, q, r \in 1..Len(df_trend) :
               p < r /\ r < q /\ df_trend[p].VM_Name = df_trend[q].VM_Name
                   => df_trend[r].VM_Name = df_trend[p].VM_Name

\* C10 witness: two VMs with interleaved timestamps: the trend holds a VM with two
\* buckets, and a later bucket of one VM stands before an earlier bucket of another.
C10_Witness ==
    /\ pc = "trend"
    /\ \E p, q \in 1..Len(df_trend) :
           /\ p < q
           /\ df_trend[p].VM_Name = df_trend[q].VM_Name
           /\ df_trend[p].Date < df_trend[q].Date
    /\ \E p, q \in 1..Len(df_trend) :
           /\ p < q
           /\ df_trend[p].VM_Name # df_trend[q].VM_Name
           /\ df_trend[p].Date > df_trend[q].Date

(***************************************************************************)
(* Properties of the colour maps (checked under SpecColor).                *)
(***************************************************************************)
ColorMapMade == pc \in {"color_map", "color_map_single"}

\* the names of a set in ascending order
RECURSIVE NamesAscending(_)
NamesAscending(names) ==
    IF names = {} THEN <<>>
    ELSE LET least == CHOOSE n \in names : \A m \in names : m = n \/ StrLess(n, m)
         IN  <<least>> \o NamesAscending(names \ {least})

\* the parents of the trend table and the children of a parent
Parents == {df_trend[r].NE : r \in 1..Len(df_trend)}

Children(parent) == {df_trend[r].VM_Type : r \in {q \in 1..Len(df_trend) : df_trend[q].NE = parent}}

\* the colour of child j of k children (0-based) under parent i (0-based):
\* hue palette[i mod 10], saturation 0.70 + (j / max(k-1,1)) * 0.30,
\* lightness 0.70 - (j / max(k-1,1)) * 0.20
PairColor(i, j, k) ==
    LET steps == IF k - 1 > 1 THEN k - 1 ELSE 1
    IN  ColorHex(Hls(FIXED_HUES[(i % 10) + 1], 7 * steps - 2 * j, 7 * steps + 3 * j,
                     10 * steps, j = steps))

\* C11 as stated: with the parents sorted and each parent's children sorted, the map
\* holds under the legend key of child j of parent i the colour PairColor(i, j, k),
\* for every (parent, child) pair of the table.
C11_AsStated ==
    ColorMapMade =>
        LET parents == NamesAscending(Parents)
        IN  \A i \in 1..Len(parents) :
                LET children == NamesAscending(Children(parents[i]))
                IN  \A j \in 1..Len(children) :
                        /\ children[j] \in DOMAIN color_map
                        /\ color_map[children[j]] = PairColor(i - 1, j - 1, Len(children))

\* the set of (parent, child) pairs of the trend table, listed parent by parent in
\* ascending order, the children of a parent in ascending order
RECURSIVE ListedPairs(_)
ListedPairs(parents) ==
    IF parents = <<>> THEN <<>>
    ELSE LET children == NamesAscending(Children(Head(parents)))
         IN  [j \in 1..Len(children) |-> [NE |-> Head(parents), VM_Type |-> children[j]]]
                 \o ListedPairs(Tail(parents))

\* C12: both colour maps are functions of the set of (parent, child) pairs alone:
\* the maps made from the table are the maps made from the listing of its set of
\* pairs and from the table with its rows in reverse order, whatever the order and
\* the repetitions of the rows, also when a child is under several parents.
C12_OrderIndependent ==
    ColorMapMade =>
        LET listed == ListedPairs(NamesAscending(Parents))
        IN  /\ color_map = generate_color_map(listed)
            /\ color_map = generate_color_map(Reversed(df_trend))
            /\ pc = "color_map_single" =>
                   /\ color_map_single = generate_color_map_single_ne(listed, ne_name)
                   /\ color_map_single
                          = generate_color_map_single_ne(Reversed(df_trend), ne_name)

\* C12 witness: both maps are made from a table where a parent comes before a
\* lesser parent, a child before a lesser child of the same parent, and one child
\* is under two parents.
C12_Witness ==
    /\ pc = "color_map_single"
    /\ \E r, q \in 1..Len(df_trend) :
           r < q /\ StrLess(df_trend[q].NE, df_trend[r].NE)
    /\ \E r, q \in 1..Len(df_trend) :
           /\ r < q
           /\ df_trend[q].NE = df_trend[r].NE
           /\ df_trend[r].NE = ne_name
           /\ StrLess(df_trend[q].VM_Type, df_trend[r].VM_Type)
    /\ \E p, q \in Parents : p # q /\ Children(p) \cap Children(q) # {}
    /\ Cardinality(DOMAIN color_map_single) >= 2

(***************************************************************************)
(* Properties of the pages (checked under SpecPage).                       *)
(***************************************************************************)
\* C13 as stated: whenever the multi-NE view is rendered, current_page is a page
\* of the view, 0 <= current_page < total_pages, and the NEs of the page are some.
C13_AsStated ==
    pc = "multi" =>
        /\ 0 <= session_state.current_page
        /\ session_state.current_page < TotalPages(Len(unique_nes))
        /\ page_nes # <<>>

====
